---- MODULE Spec2Model ----
(***************************************************************************)
(* A model of the OBJ/MTL loading pipeline of the FPS-Game repository:     *)
(* Model::loadObject, Model::loadMaterials, Model::deleteObjects and the   *)
(* Vector3 operators they use (source/Model.cpp, include/Model.h,          *)
(* include/Vector3.h).                                                     *)
(*                                                                         *)
(* loadObject is modelled one source line of the file at a time (pc says   *)
(* where the call stands); the reference loop of an f line is modelled one *)
(* iteration at a time on the characters of the line, with the iostream    *)
(* state bits the code tests.                                              *)
(***************************************************************************)
EXTENDS Integers, Sequences, FiniteSets, TLC

(***************************************************************************)
(* Bounds of the model.                                                    *)
(***************************************************************************)
MaxCalls == 3        \* calls of loadObject and deleteObjects, in one behaviour
MaxLoads == 2        \* of them, loadObject calls that open their file
MaxLines == 4        \* lines read from the OBJ file, in a behaviour of one load
MaxSlots == 2        \* hardware lights the OpenGL implementation reports
MaxLights == 4       \* Lights constructed in a behaviour
MaxDepth == 4        \* nested calls the stack has room for
MaxFileLines == 7    \* lines read from the OBJ file, in a behaviour that draws the scene
MaxLifeLines == 3    \* lines read from OBJ files, in a behaviour of several loads
MaxVerts == 3        \* v lines in one OBJ file
MaxAttrs == 1        \* vt lines, and vn lines, in one OBJ file
MaxMtlLines == 3     \* lines read from material libraries, in one behaviour

(***************************************************************************)
(* Floats.  A float is modelled by the exact rational it holds, n/d in     *)
(* lowest terms with d > 0; d = 0 stands for the IEEE results of a         *)
(* division by zero (n = 1: +inf, n = -1: -inf, n = 0: NaN).               *)
(***************************************************************************)
Abs(i) == IF i < 0 THEN -i ELSE i

RECURSIVE Gcd(_, _)
Gcd(a, b) == IF b = 0 THEN a ELSE Gcd(b, a % b)

Sign(i) == IF i > 0 THEN 1 ELSE IF i < 0 THEN -1 ELSE 0

Rat(n, d) ==
    IF d = 0 THEN [n |-> Sign(n), d |-> 0]
    ELSE LET g == Gcd(Abs(n), Abs(d))
             s == IF d < 0 THEN -1 ELSE 1
         IN  [n |-> s * (n \div g), d |-> s * (d \div g)]

F(i) == Rat(i, 1)
NaN == [n |-> 0, d |-> 0]

FAdd(a, b) ==
    IF a.d = 0 /\ b.d = 0 THEN (IF a = b THEN a ELSE NaN)
    ELSE IF a.d = 0 THEN a
    ELSE IF b.d = 0 THEN b
    ELSE Rat(a.n * b.d + b.n * a.d, a.d * b.d)

FSub(a, b) == FAdd(a, [n |-> -b.n, d |-> b.d])

FDiv(a, b) ==
    IF a.d = 0 \/ b.d = 0
    THEN (IF a.d = 0 /\ b.d = 0 THEN NaN
          ELSE IF a.d = 0 THEN [n |-> a.n * (IF b.n < 0 THEN -1 ELSE 1), d |-> 0]
          ELSE F(0))
    ELSE Rat(a.n * b.d, a.d * b.n)

FMul(a, b) ==
    IF a.d = 0 \/ b.d = 0
    THEN [n |-> Sign(a.n) * Sign(b.n), d |-> 0]
    ELSE Rat(a.n * b.n, a.d * b.d)

FLess(a, b) == a.d # 0 /\ b.d # 0 /\ a.n * b.d < b.n * a.d

(***************************************************************************)
(* Vector3 (include/Vector3.h).                                            *)
(***************************************************************************)
Vector3(X, Y, Z) == [x |-> X, y |-> Y, z |-> Z]

Vec(i, j, k) == Vector3(F(i), F(j), F(k))

ZeroVec == Vec(0, 0, 0)

\* operator+ : a new vector, the component sums.
VAdd(a, b) == Vector3(FAdd(b.x, a.x), FAdd(b.y, a.y), FAdd(b.z, a.z))

\* operator- (binary)
VSub(a, b) == Vector3(FSub(a.x, b.x), FSub(a.y, b.y), FSub(a.z, b.z))

\* operator+= : assigns the sum to *this.  self is *this after the call, ret
\* the value returned.
VAddEq(self, vec) == [self |-> VAdd(self, vec), ret |-> VAdd(self, vec)]

\* operator/= : returns the quotient as a new vector and leaves *this as it
\* was (the body holds no assignment).
VDivEq(self, num) ==
    [self |-> self,
     ret  |-> Vector3(FDiv(self.x, num), FDiv(self.y, num), FDiv(self.z, num))]

(***************************************************************************)
(* The std::istringstream newLine of an f line, after "f" has been read:   *)
(* s is the rest of the line, one character per element, pos the index of  *)
(* the next character, fail and eof the stream's failbit and eofbit.       *)
(***************************************************************************)
\* Reading the first word of a line that holds nothing after it hits the end of
\* the line, which sets eofbit.
Stream(chars) == [s |-> chars, pos |-> 1, fail |-> FALSE, eof |-> chars = <<>>]

Good(st) == ~st.fail /\ ~st.eof

AtEnd(st) == st.pos > Len(st.s)

Peek(st) == st.s[st.pos]

DigitChars == <<"0", "1", "2", "3", "4", "5", "6", "7", "8", "9">>

IsDigit(c) == \E i \in 1..Len(DigitChars) : DigitChars[i] = c

DigitVal(c) == (CHOOSE i \in 1..Len(DigitChars) : DigitChars[i] = c) - 1

RECURSIVE SkipSpaces(_)
SkipSpaces(st) ==
    IF AtEnd(st) THEN [st EXCEPT !.eof = TRUE]
    ELSE IF Peek(st) = " " THEN SkipSpaces([st EXCEPT !.pos = @ + 1])
    ELSE st

\* newLine >> std::ws : on a stream that is not good() the sentry sets failbit;
\* otherwise white space is discarded, and eofbit is set when the end is hit.
Ws(st) == IF ~Good(st) THEN [st EXCEPT !.fail = TRUE] ELSE SkipSpaces(st)

RECURSIVE ReadDigits(_, _)
ReadDigits(st, acc) ==
    IF AtEnd(st) THEN [st |-> [st EXCEPT !.eof = TRUE], val |-> acc]
    ELSE IF IsDigit(Peek(st))
         THEN ReadDigits([st EXCEPT !.pos = @ + 1], acc * 10 + DigitVal(Peek(st)))
         ELSE [st |-> st, val |-> acc]

\* newLine >> i, for an int i whose value before the call is old.  A stream that
\* is not good(), or only white space up to the end, fails in the sentry and
\* does not write i; a field with no digit sets failbit and writes 0.
ExtractInt(st, old) ==
    IF ~Good(st) THEN [st |-> [st EXCEPT !.fail = TRUE], val |-> old]
    ELSE LET w == SkipSpaces(st) IN
         IF w.eof THEN [st |-> [w EXCEPT !.fail = TRUE], val |-> old]
         ELSE LET neg  == Peek(w) = "-"
                  sgn  == Peek(w) = "-" \/ Peek(w) = "+"
                  d    == IF sgn THEN [w EXCEPT !.pos = @ + 1] ELSE w
              IN  IF AtEnd(d) THEN [st |-> [d EXCEPT !.eof = TRUE, !.fail = TRUE], val |-> 0]
                  ELSE IF ~IsDigit(Peek(d)) THEN [st |-> [d EXCEPT !.fail = TRUE], val |-> 0]
                  ELSE LET r == ReadDigits(d, 0)
                       IN  [st |-> r.st, val |-> IF neg THEN -r.val ELSE r.val]

\* newLine.get(temp) : ok says whether a character was read; temp is written
\* only then.
Get(st, temp) ==
    IF ~Good(st) THEN [st |-> [st EXCEPT !.fail = TRUE], temp |-> temp, ok |-> FALSE]
    ELSE IF AtEnd(st)
         THEN [st |-> [st EXCEPT !.fail = TRUE, !.eof = TRUE], temp |-> temp, ok |-> FALSE]
         ELSE [st |-> [st EXCEPT !.pos = @ + 1], temp |-> Peek(st), ok |-> TRUE]

\* while (newLine.get(temp)) if (temp == '/' || temp == ' ') break;
RECURSIVE SkipToSeparator(_, _)
SkipToSeparator(st, temp) ==
    LET g == Get(st, temp) IN
    IF ~g.ok THEN [st |-> g.st, temp |-> g.temp]
    ELSE IF g.temp = "/" \/ g.temp = " " THEN [st |-> g.st, temp |-> g.temp]
    ELSE SkipToSeparator(g.st, g.temp)

\* newLine.unget() : clears eofbit, then fails on a stream with failbit set.
Unget(st) ==
    LET c == [st EXCEPT !.eof = FALSE] IN
    IF c.fail THEN c
    ELSE IF c.pos > 1 THEN [c EXCEPT !.pos = @ - 1]
    ELSE [c EXCEPT !.fail = TRUE]

(***************************************************************************)
(* The heap.  A pointer names what new returned: the kind of object, the   *)
(* loadObject call that allocated it (epoch) and its number among the      *)
(* objects of that kind and call.  live holds the objects allocated and    *)
(* not deleted, frees counts the delete expressions applied to each.       *)
(* tex holds the members of each Texture object constructed, and textures  *)
(* the static registry Texture::textures, in push_back order.              *)
(***************************************************************************)
Ptr(kind, e, n) == <<kind, e, n>>

NULL == <<"NULL", 0, 0>>

\* What an out-of-range read of a pool yields: a pointer to no object.
WILD == <<"WILD", 0, 0>>

KindOf(p) == p[1]

EpochOf(p) == p[2]

EmptyHeap == [live |-> {}, frees |-> <<>>, tex |-> <<>>, textures |-> <<>>]

New(h, p) == [h EXCEPT !.live = @ \cup {p}]

\* The storage of p is released.
Release(h, p) ==
    [h EXCEPT !.live = @ \ {p},
              !.frees = IF p \in DOMAIN @ THEN [@ EXCEPT ![p] = @ + 1] ELSE @ @@ (p :> 1)]

IsTexture(h, p) == KindOf(p) = "Texture" /\ p \in DOMAIN h.tex

\* Texture::~Texture : the object is erased from the registry, then imageData
\* is deleted when it is not null.
DestroyTexture(h, p) ==
    LET erased == [h EXCEPT !.textures = SelectSeq(@, LAMBDA q : q # p)]
        imageData == h.tex[p].imageData
    IN  IF imageData = NULL THEN erased ELSE Release(erased, imageData)

\* What ~Texture does that is undefined.  After textures.erase(it) the loop
\* goes on with it++: when the object was the last of the registry, it is
\* then past end() and is read there.  imageData still holds the address of a
\* buffer loadTGA has deleted: it is deleted a second time.  The buffer comes
\* from new[] and is released with delete.
TextureFaults(h, p) ==
    LET imageData == h.tex[p].imageData IN
    (IF h.textures # <<>> /\ h.textures[Len(h.textures)] = p
     THEN {"iterator past end"} ELSE {})
    \cup (IF imageData # NULL /\ imageData \notin h.live THEN {"double delete"} ELSE {})
    \cup (IF imageData # NULL THEN {"array deleted as scalar"} ELSE {})

\* delete p; (delete of a null pointer does nothing; delete of a Texture runs
\* its destructor first)
Delete(h, p) ==
    IF p = NULL THEN h
    ELSE Release(IF IsTexture(h, p) THEN DestroyTexture(h, p) ELSE h, p)

RECURSIVE DeleteEach(_, _)
DeleteEach(h, ps) ==
    IF ps = <<>> THEN h ELSE DeleteEach(Delete(h, Head(ps)), Tail(ps))

\* The undefined behaviour of the deletes of ps, in order.
RECURSIVE DeleteFaults(_, _)
DeleteFaults(h, ps) ==
    IF ps = <<>> THEN {}
    ELSE (IF IsTexture(h, Head(ps)) THEN TextureFaults(h, Head(ps)) ELSE {})
         \cup DeleteFaults(Delete(h, Head(ps)), Tail(ps))

Frees(h, p) == IF p \in DOMAIN h.frees THEN h.frees[p] ELSE 0

(***************************************************************************)
(* Material (include/Model.h).  Of its fields the model keeps name, alpha  *)
(* and the seven texture maps; the reflectance arrays, shininess and illum *)
(* are plain floats that nothing modelled here reads.                      *)
(***************************************************************************)
MapSlots == {"ambientMap", "diffuseMap", "specularMap", "emissionMap",
             "shininessMap", "transparencyMap", "bumpMap"}

Material(p) == [ptr |-> p, name |-> "", alpha |-> F(1), maps |-> [m \in MapSlots |-> NULL]]

(***************************************************************************)
(* Face and GroupObject (include/Model.h).  Face() sets the three arrays   *)
(* and material to NULL and default-constructs the two vectors; the three  *)
(* counts are not initialized, and are first read after loadObject has     *)
(* assigned them: Unset stands for their value until then.  faceNormal     *)
(* keeps the two edge vectors whose normalized cross product it is (the    *)
(* square roots are not computed); set says whether it was assigned.       *)
(***************************************************************************)
Unset == -1

Face(p) ==
    [ptr |-> p,
     vertices |-> NULL, numVertices |-> Unset, vertexRefs |-> <<>>,
     normals |-> NULL, numNormals |-> Unset, normalRefs |-> <<>>,
     UVWs |-> NULL, numUVWs |-> Unset, UVWRefs |-> <<>>,
     material |-> NULL,
     faceCenter |-> ZeroVec,
     faceNormal |-> [set |-> FALSE, e1 |-> ZeroVec, e2 |-> ZeroVec]]

GroupObject(p) == [ptr |-> p, faces |-> <<>>, objectName |-> "", groupName |-> ""]

(***************************************************************************)
(* Texture (the Texture implementation file, include/Texture.h).           *)
(*                                                                         *)
(* An image file either does not open, or holds fewer bytes than a header  *)
(* (complete is FALSE), or holds a header and a payload of bytes.  Of the  *)
(* header the model keeps the four fields loadTGA reads; ImageWidth and    *)
(* ImageHeight are GLshort, signed 16-bit values.                          *)
(***************************************************************************)
TGAHeader(type, w, h, depth) ==
    [ImageType |-> type, ImageWidth |-> w, ImageHeight |-> h, PixelDepth |-> depth]

NoFile ==
    [opens |-> FALSE, complete |-> FALSE, header |-> TGAHeader(0, 0, 0, 0), payload |-> <<>>]

ShortHeader ==
    [opens |-> TRUE, complete |-> FALSE, header |-> TGAHeader(0, 0, 0, 0), payload |-> <<>>]

TGAFile(type, w, h, depth, payload) ==
    [opens |-> TRUE, complete |-> TRUE, header |-> TGAHeader(type, w, h, depth),
     payload |-> payload]

\* width, height, bpp and imageSize are unsigned int (GLuint), 32 bits wide.
\* An unsigned value u is held as the integer of -2^31 .. 2^31 - 1 congruent
\* to it modulo 2^32: u itself below 2^31, u - 2^32 from 2^31 on.  A GLshort
\* converted to unsigned int is then held as its own value.
MaxInt == 2147483647

MinInt == -MaxInt - 1

\* a + b modulo 2^32
AddWrap(a, b) ==
    IF a > 0 /\ b > MaxInt - a THEN (a + MinInt) + (b + MinInt)
    ELSE IF a < 0 /\ b < MinInt - a THEN (a - MinInt) + (b - MinInt)
    ELSE a + b

\* a * n modulo 2^32, for a small count n >= 0
RECURSIVE MulWrap(_, _)
MulWrap(a, n) == IF n = 0 THEN 0 ELSE AddWrap(MulWrap(a, n - 1), a)

\* width <= 0, on unsigned operands
NotPositive(u) == u = 0

\* An allocation of 2^31 bytes or more.
Huge(size) == size < 0

\* Lines 129-133, on the bytes of the buffer from index i (0-based) on.
RECURSIVE SwapLoop(_, _, _, _)
SwapLoop(data, i, imageSize, bytesPerPixel) ==
    IF i >= imageSize THEN data
    ELSE LET temp == data[i + 1]
             d1 == [data EXCEPT ![i + 1] = data[i + 3]]
             d2 == [d1 EXCEPT ![i + 2] = temp]
         IN  SwapLoop(d2, i + bytesPerPixel, imageSize, bytesPerPixel)

\* What loadTGA leaves when it returns before line 100: width, height and
\* bpp are not assigned (assigned is FALSE and the three fields mean nothing).
NotDecoded ==
    [ret |-> FALSE, assigned |-> FALSE, width |-> 0, height |-> 0, bpp |-> 0,
     allocated |-> FALSE, deleted |-> FALSE, thrown |-> FALSE,
     pixels |-> <<>>, created |-> FALSE]

\* Texture::loadTGA on the file.  allocated: new GLubyte[imageSize] returned a
\* buffer (imageData points to it from then on); deleted: the failure path
\* deleted it; thrown: new threw std::bad_alloc, which nothing catches (it may
\* for a huge size; allocates says whether it did not); created: createTexture
\* made the device texture.
LoadTGA(file, allocates) ==
    IF ~file.opens \/ ~file.complete THEN NotDecoded
    ELSE IF file.header.ImageType # 2 THEN NotDecoded
    ELSE LET width == file.header.ImageWidth
             height == file.header.ImageHeight
             bpp == file.header.PixelDepth
             sized == [NotDecoded EXCEPT !.assigned = TRUE, !.width = width,
                                         !.height = height, !.bpp = bpp]
         IN  IF NotPositive(width) \/ NotPositive(height) \/ (bpp # 24 /\ bpp # 32)
             THEN sized
             ELSE LET bytesPerPixel == bpp \div 8
                      imageSize == MulWrap(width * height, bytesPerPixel)
                  IN  IF Huge(imageSize) /\ ~allocates
                      THEN [sized EXCEPT !.thrown = TRUE]
                      ELSE IF Huge(imageSize) \/ Len(file.payload) < imageSize
                      THEN [sized EXCEPT !.allocated = TRUE, !.deleted = TRUE]
                      ELSE [sized EXCEPT
                              !.ret = TRUE,
                              !.allocated = TRUE,
                              !.pixels = SwapLoop(SubSeq(file.payload, 1, imageSize), 0,
                                                  imageSize, bytesPerPixel),
                              !.created = TRUE]

\* The members of the Texture object at p after Texture::Texture(filename):
\* imageData = NULL, then loadTGA, whose result is not looked at.  file is the
\* file the object was constructed from.
TextureObject(p, file, decoded) ==
    [imageData |-> IF decoded.allocated THEN Ptr("GLubyte[]", p[2], p[3]) ELSE NULL,
     assigned |-> decoded.assigned,
     width |-> decoded.width, height |-> decoded.height, bpp |-> decoded.bpp,
     pixels |-> decoded.pixels,
     loaded |-> decoded.ret,
     created |-> decoded.created,
     file |-> file]

\* new Texture(filename) returning p: the object and the buffer loadTGA has
\* allocated (and may have deleted) are on the heap, the object is in the
\* registry.
NewTexture(h, p, file, decoded) ==
    LET object == TextureObject(p, file, decoded)
        h1 == [New(h, p) EXCEPT !.tex = @ @@ (p :> object),
                                !.textures = Append(@, p)]
    IN  IF ~decoded.allocated THEN h1
        ELSE IF decoded.deleted THEN Release(New(h1, object.imageData), object.imageData)
        ELSE New(h1, object.imageData)

(***************************************************************************)
(* The files of the environment.  A path is a sequence of characters.      *)
(***************************************************************************)
\* An OBJ file that opens, and one that does not.
ObjPath == <<"d", "/", "a">>

UnreadablePaths == {<<"d", "/", "x">>}

MaterialNames == {"red", "blue"}

VARIABLES
    pc,               \* where the Model's caller or loadObject stands
    objects, vertices, normals, UVWs, materials,       \* Model's pools
    radius, center, objectLoaded, displayList, filename, \* Model's other members
    currentGroup, currentMaterial, path,  \* locals of loadObject
    linesRead,                            \* lines read from OBJ files so far
    unmatched,                            \* the last usemtl line of the load matched no material
    newLine, tempVertices, tempNormals, tempUVWs, \* locals of the f branch
    libs, material,                       \* mtllib names still to load; the current material of loadMaterials
    mtlRead,                              \* lines read from material libraries so far
    heap,                                 \* the objects allocated with new
    epoch,                                \* loadObject calls that opened their file
    calls,                                \* calls of loadObject and deleteObjects so far
    ret,                                  \* what the call that returned last returned ("none": nothing)
    parsed,                               \* directives dispatched by the current load
    ub,                                   \* the undefined behaviour executed so far
    istr, mstr,                           \* the file streams of loadObject and of loadMaterials
    num_lights, available_lights, lights, \* the static members of Light
    lightNum,                             \* lightNum of every live Light
    lightsMade,                           \* the Lights constructed so far
    vcall,                                \* the Vector3 operator called last, its *this and its num
    vdepth,                               \* the calls of that operator that have not returned
    vreturned, vresult                    \* whether the call has returned, and what

modelVars == <<objects, vertices, normals, UVWs, materials, radius, center,
               objectLoaded, displayList, filename>>

loadVars == <<currentGroup, currentMaterial, path, linesRead, unmatched, newLine,
              tempVertices, tempNormals, tempUVWs, libs, material, mtlRead>>

streamVars == <<istr, mstr>>

lightVars == <<num_lights, available_lights, lights, lightNum, lightsMade>>

vecVars == <<vcall, vdepth, vreturned, vresult>>

restVars == <<lightVars, vecVars>>

otherVars == <<streamVars, restVars>>

vars == <<pc, modelVars, loadVars, heap, epoch, calls, ret, parsed, ub, otherVars>>

\* A file stream that has just been opened: failbit clear.  unread is the
\* number of lines the file holds after the line at which getline failed.
FreshStream == [fail |-> FALSE, unread |-> 0]

NoneParsed == [v |-> 0, vt |-> 0, vn |-> 0, g |-> 0, f |-> 0, lib |-> 0, newmtl |-> 0, map |-> 0]

\* An uninitialized float holds whatever its storage held.
GarbageFloats == {F(0), F(1)}

\* radius is Length(diagonal) / 2.0f: the model keeps the squared length the
\* square root is taken of.
Radius(lengthSquared) == [halfSqrtOf |-> lengthSquared]

(***************************************************************************)
(* Model::Model("") : objectLoaded and displayList are assigned, the pools *)
(* and filename are default-constructed, center is Vector3(), radius is    *)
(* not initialized.                                                        *)
(***************************************************************************)
Init ==
    /\ pc = "idle"
    /\ objects = <<>> /\ vertices = <<>> /\ normals = <<>> /\ UVWs = <<>>
    /\ materials = <<>>
    /\ radius \in {Radius(g) : g \in GarbageFloats}
    /\ center = ZeroVec
    /\ objectLoaded = FALSE
    /\ displayList = 0
    /\ filename = <<>>
    /\ currentGroup = NULL /\ currentMaterial = NULL /\ path = <<>>
    /\ linesRead = 0
    /\ unmatched = FALSE
    /\ newLine = Stream(<<>>)
    /\ tempVertices = <<>> /\ tempNormals = <<>> /\ tempUVWs = <<>>
    /\ libs = <<>> /\ material = NULL /\ mtlRead = 0
    /\ heap = EmptyHeap
    /\ epoch = 0
    /\ calls = 0
    /\ ret = "none"
    /\ parsed = NoneParsed
    /\ ub = {}
    /\ istr = FreshStream /\ mstr = FreshStream
    /\ num_lights = 0
    /\ available_lights = <<>>
    /\ lights = <<>>
    /\ lightNum = <<>>
    /\ lightsMade = 0
    /\ vcall = [op |-> "none", self |-> ZeroVec, num |-> F(0)]
    /\ vdepth = 0
    /\ vreturned = FALSE
    /\ vresult = ZeroVec

(***************************************************************************)
(* Model::deleteObjects                                                    *)
(***************************************************************************)
MapOrder == <<"ambientMap", "diffuseMap", "specularMap", "emissionMap",
              "shininessMap", "transparencyMap", "bumpMap">>

\* The deletes of one turn of the materials loop: each map that is not NULL,
\* then the material.
MaterialDeletes(m) ==
    [i \in 1..Len(MapOrder) |-> m.maps[MapOrder[i]]] \o <<m.ptr>>

\* The deletes of one turn of the inner faces loop: the three arrays, the face.
FaceDeletes(f) == <<f.vertices, f.normals, f.UVWs, f.ptr>>

RECURSIVE Flatten(_)
Flatten(ss) == IF ss = <<>> THEN <<>> ELSE Head(ss) \o Flatten(Tail(ss))

PoolPtrs(pool) == [i \in 1..Len(pool) |-> pool[i].ptr]

\* The deletes of the objects loop: the faces of every object.  The
\* GroupObjects themselves are not deleted: objects.clear() drops the pointers.
ObjectDeletes(objs) ==
    Flatten([i \in 1..Len(objs) |->
                Flatten([f \in 1..Len(objs[i].faces) |-> FaceDeletes(objs[i].faces[f])])])

\* Every delete expression deleteObjects evaluates, in order.
DeleteObjectsDeletes(mats, verts, norms, uvws, objs) ==
    Flatten([m \in 1..Len(mats) |-> MaterialDeletes(mats[m])])
    \o PoolPtrs(verts) \o PoolPtrs(norms) \o PoolPtrs(uvws)
    \o ObjectDeletes(objs)

\* The heap after deleteObjects.
DeleteObjectsHeap(h, mats, verts, norms, uvws, objs) ==
    DeleteEach(h, DeleteObjectsDeletes(mats, verts, norms, uvws, objs))

\* What the destructors run by deleteObjects do that the language leaves
\* undefined.
DeleteObjectsFaults(h, mats, verts, norms, uvws, objs) ==
    DeleteFaults(h, DeleteObjectsDeletes(mats, verts, norms, uvws, objs))

\* Where the teardown ends: at next when no destructor misbehaved; otherwise
\* the build either goes on to next or aborts.
AfterTeardown(faults, next) == IF faults = {} THEN {next} ELSE {next, "crashed"}

\* A clear() that would leave the pool as it is: what the teardown must not be.
ClearNothing(pool) == pool

\* std::vector::clear() as deleteObjects applies it to a pool.
Clear(pool) == <<>>

\* A public function is called on a Model no call is running on.
Call ==
    /\ pc = "idle"
    /\ calls < MaxCalls
    /\ calls' = calls + 1

\* deleteObjects called on an idle Model (it is public, and ~Model calls it).
DeleteObjects ==
    /\ Call
    /\ heap' = DeleteObjectsHeap(heap, materials, vertices, normals, UVWs, objects)
    /\ UVWs' = Clear(UVWs)
    /\ normals' = Clear(normals)
    /\ vertices' = Clear(vertices)
    /\ objects' = Clear(objects)
    /\ materials' = Clear(materials)
    /\ ret' = "none"
    /\ LET faults == DeleteObjectsFaults(heap, materials, vertices, normals, UVWs, objects)
       IN  /\ ub' = ub \cup faults
           /\ pc' \in AfterTeardown(faults, "idle")
    /\ UNCHANGED <<radius, center, objectLoaded, displayList, filename,
                   loadVars, epoch, parsed,
                   otherVars>>

(***************************************************************************)
(* Model::loadObject                                                       *)
(***************************************************************************)
IsSlash(c) == c = "/" \/ c = "\\"

\* for (i = length; path[i] != '\\' && path[i] != '/'; i--) path[i] = 0;
\* on the 0-based buffer path, whose element i is fn[i + 1] and whose element
\* Len(fn) is the terminating 0.  underrun: the scan went below path[0].
RECURSIVE ScanPrefix(_, _)
ScanPrefix(fn, i) ==
    IF i < 0 THEN [prefix |-> <<>>, underrun |-> TRUE]
    ELSE IF i < Len(fn) /\ IsSlash(fn[i + 1])
         THEN [prefix |-> SubSeq(fn, 1, i + 1), underrun |-> FALSE]
         ELSE ScanPrefix(fn, i - 1)

DirPrefix(fn) == ScanPrefix(fn, Len(fn))

\* A failed call that would run the teardown before it returns: what the code
\* does not do.
LoadObjectFailTearingDown(fn) ==
    /\ Call
    /\ filename' = fn
    /\ ret' = "false"
    /\ heap' = DeleteObjectsHeap(heap, materials, vertices, normals, UVWs, objects)
    /\ UVWs' = <<>> /\ normals' = <<>> /\ vertices' = <<>>
    /\ objects' = <<>> /\ materials' = <<>>
    /\ objectLoaded' = FALSE
    /\ UNCHANGED <<pc, radius, center, displayList, loadVars, epoch, parsed, ub,
                   otherVars>>

\* The call fails to open its file: filename has been assigned (line 225), and
\* the call returns false (lines 228-229) before anything else.
LoadObjectFail(fn) ==
    /\ Call
    /\ filename' = fn
    /\ ret' = "false"
    /\ UNCHANGED <<pc, objects, vertices, normals, UVWs, materials, radius, center,
                   objectLoaded, displayList, loadVars, heap, epoch, parsed, ub,
                   otherVars>>

\* The call opens its file: lines 225-248, up to the first getline.  A filename
\* without a slash makes the prefix scan run below path[0]; the build then
\* either aborts or goes on with an empty prefix.
LoadObjectOpen(fn) ==
    LET e == epoch + 1
        defaultObject == Ptr("GroupObject", e, 1)
        dp == DirPrefix(fn)
        faults == DeleteObjectsFaults(heap, materials, vertices, normals, UVWs, objects)
    IN  /\ Call
        /\ epoch < MaxLoads
        /\ filename' = fn
        /\ heap' = New(DeleteObjectsHeap(heap, materials, vertices, normals, UVWs, objects),
                       defaultObject)
        /\ UVWs' = Clear(UVWs)
        /\ normals' = Clear(normals)
        /\ vertices' = Clear(vertices)
        /\ materials' = Clear(materials)
        /\ displayList' = 0
        /\ objectLoaded' = FALSE
        /\ objects' = Append(Clear(objects), GroupObject(defaultObject))
        /\ currentGroup' = defaultObject
        /\ path' = dp.prefix
        /\ currentMaterial' = NULL
        /\ epoch' = e
        /\ parsed' = NoneParsed
        /\ ret' = "none"
        /\ IF dp.underrun
           THEN /\ ub' = ub \cup faults \cup {"path underrun"}
                /\ pc' \in {"parse", "crashed"}
           ELSE /\ ub' = ub \cup faults
                /\ pc' \in AfterTeardown(faults, "parse")
        /\ unmatched' = FALSE
        /\ istr' = FreshStream
        /\ UNCHANGED <<radius, center, linesRead, newLine, tempVertices, tempNormals,
                       tempUVWs, libs, material, mtlRead,
                       mstr, restVars>>

\* char line[256]
LineSize == 256

\* getline(line, 256) on a line of length characters before its newline: it
\* stores 255 characters at most, and sets failbit when it has stored 255 and
\* the next character is not the newline.
GetlineFails(length) == length > LineSize - 1

\* istr.getline(line, 256) reads one more line.
ReadLine ==
    /\ pc = "parse"
    /\ ~istr.fail
    /\ linesRead < MaxFileLines
    /\ linesRead' = linesRead + 1

\* "#", and every first word no branch tests for.
ParseIgnored ==
    /\ ReadLine
    /\ UNCHANGED <<pc, modelVars, currentGroup, currentMaterial, path, unmatched, newLine,
                   tempVertices, tempNormals, tempUVWs, libs, material, mtlRead,
                   heap, epoch, calls, ret, parsed, ub,
                   otherVars>>

\* A "#" line of length characters, with later lines after it in the file.
\* When getline fails on it the condition of the while loop is false: no
\* line is dispatched any more, this one included.
ParseComment(length, later) ==
    IF GetlineFails(length)
    THEN /\ pc = "parse"
         /\ ~istr.fail
         /\ istr' = [fail |-> TRUE, unread |-> later]
         /\ UNCHANGED <<pc, modelVars, loadVars, heap, epoch, calls, ret, parsed, ub,
                        mstr, restVars>>
    ELSE ParseIgnored

\* A search that would keep going after a match and so end on the last one:
\* what the loop, with its break, does not do.
LastMatch(mats, name) ==
    IF \E i \in 1..Len(mats) : mats[i].name = name
    THEN mats[CHOOSE i \in 1..Len(mats) :
                 /\ mats[i].name = name
                 /\ \A j \in (i + 1)..Len(mats) : mats[j].name # name].ptr
    ELSE NULL

\* usemtl: the loop over materials assigns currentMaterial at the first name
\* that matches, and assigns nothing when none does.
FirstMatch(mats, name) ==
    IF \E i \in 1..Len(mats) : mats[i].name = name
    THEN mats[CHOOSE i \in 1..Len(mats) :
                 /\ mats[i].name = name
                 /\ \A j \in 1..(i - 1) : mats[j].name # name].ptr
    ELSE NULL

UsemtlResult(mats, name, current) ==
    IF FirstMatch(mats, name) # NULL THEN FirstMatch(mats, name) ELSE current

ParseUsemtl(materialName) ==
    /\ ReadLine
    /\ currentMaterial' = UsemtlResult(materials, materialName, currentMaterial)
    /\ unmatched' = (FirstMatch(materials, materialName) = NULL)
    /\ UNCHANGED <<pc, modelVars, currentGroup, path, newLine,
                   tempVertices, tempNormals, tempUVWs, libs, material, mtlRead,
                   heap, epoch, calls, ret, parsed, ub,
                   otherVars>>

\* v x y z
ParseV(val) ==
    LET vertex == Ptr("Vector3 v", epoch, parsed.v + 1) IN
    /\ ReadLine
    /\ parsed.v < MaxVerts
    /\ heap' = New(heap, vertex)
    /\ vertices' = Append(vertices, [ptr |-> vertex, val |-> val])
    /\ parsed' = [parsed EXCEPT !.v = @ + 1]
    /\ UNCHANGED <<pc, objects, normals, UVWs, materials, radius, center,
                   objectLoaded, displayList, filename, currentGroup, currentMaterial,
                   path, unmatched, newLine, tempVertices, tempNormals, tempUVWs, libs, material,
                   mtlRead, epoch, calls, ret, ub,
                   otherVars>>

\* vt u v w
ParseVt(val) ==
    LET uvw == Ptr("Vector3 vt", epoch, parsed.vt + 1) IN
    /\ ReadLine
    /\ parsed.vt < MaxAttrs
    /\ heap' = New(heap, uvw)
    /\ UVWs' = Append(UVWs, [ptr |-> uvw, val |-> val])
    /\ parsed' = [parsed EXCEPT !.vt = @ + 1]
    /\ UNCHANGED <<pc, objects, vertices, normals, materials, radius, center,
                   objectLoaded, displayList, filename, currentGroup, currentMaterial,
                   path, unmatched, newLine, tempVertices, tempNormals, tempUVWs, libs, material,
                   mtlRead, epoch, calls, ret, ub,
                   otherVars>>

\* vn x y z
ParseVn(val) ==
    LET normal == Ptr("Vector3 vn", epoch, parsed.vn + 1) IN
    /\ ReadLine
    /\ parsed.vn < MaxAttrs
    /\ heap' = New(heap, normal)
    /\ normals' = Append(normals, [ptr |-> normal, val |-> val])
    /\ parsed' = [parsed EXCEPT !.vn = @ + 1]
    /\ UNCHANGED <<pc, objects, vertices, UVWs, materials, radius, center,
                   objectLoaded, displayList, filename, currentGroup, currentMaterial,
                   path, unmatched, newLine, tempVertices, tempNormals, tempUVWs, libs, material,
                   mtlRead, epoch, calls, ret, ub,
                   otherVars>>

\* A g default line that would leave the most recently created object active:
\* what the code does not do.
GDefaultKeepsLast ==
    /\ ReadLine
    /\ currentGroup' = objects[Len(objects)].ptr
    /\ UNCHANGED <<pc, modelVars, currentMaterial, path, unmatched, newLine,
                   tempVertices, tempNormals, tempUVWs, libs, material, mtlRead,
                   heap, epoch, calls, ret, parsed, ub,
                   otherVars>>

\* g default: currentGroup = defaultObject, which is objects[0].
ParseGDefault ==
    /\ ReadLine
    /\ currentGroup' = objects[1].ptr
    /\ UNCHANGED <<pc, modelVars, currentMaterial, path, unmatched, newLine,
                   tempVertices, tempNormals, tempUVWs, libs, material, mtlRead,
                   heap, epoch, calls, ret, parsed, ub,
                   otherVars>>

\* A g line that would put its object in front of the pool: what push_back
\* does not do.
ParseGInFront(objectName, groupName) ==
    LET object == Ptr("GroupObject", epoch, parsed.g + 2) IN
    /\ ReadLine
    /\ heap' = New(heap, object)
    /\ currentGroup' = object
    /\ objects' = <<[GroupObject(object) EXCEPT !.objectName = objectName,
                                                !.groupName = groupName]>> \o objects
    /\ parsed' = [parsed EXCEPT !.g = @ + 1]
    /\ UNCHANGED <<pc, vertices, normals, UVWs, materials, radius, center,
                   objectLoaded, displayList, filename, currentMaterial,
                   path, unmatched, newLine, tempVertices, tempNormals, tempUVWs, libs, material,
                   mtlRead, epoch, calls, ret, ub,
                   otherVars>>

\* g objectName groupName, objectName not "default"
ParseG(objectName, groupName) ==
    LET object == Ptr("GroupObject", epoch, parsed.g + 2) IN
    /\ ReadLine
    /\ heap' = New(heap, object)
    /\ currentGroup' = object
    /\ objects' = Append(objects, [GroupObject(object) EXCEPT !.objectName = objectName,
                                                               !.groupName = groupName])
    /\ parsed' = [parsed EXCEPT !.g = @ + 1]
    /\ UNCHANGED <<pc, vertices, normals, UVWs, materials, radius, center,
                   objectLoaded, displayList, filename, currentMaterial,
                   path, unmatched, newLine, tempVertices, tempNormals, tempUVWs, libs, material,
                   mtlRead, epoch, calls, ret, ub,
                   otherVars>>

(***************************************************************************)
(* The f branch of loadObject.                                             *)
(***************************************************************************)
GroupIndex(objs, p) == CHOOSE i \in 1..Len(objs) : objs[i].ptr = p

\* f: lines 310-317.  The new Face is bound to currentMaterial and pushed on
\* currentGroup before any reference is read.
ParseFBegin(chars) ==
    LET newFace == Ptr("Face", epoch, parsed.f + 1)
        g == GroupIndex(objects, currentGroup)
    IN  /\ ReadLine
        /\ heap' = New(heap, newFace)
        /\ objects' = [objects EXCEPT ![g].faces =
                          Append(@, [Face(newFace) EXCEPT !.material = currentMaterial])]
        /\ newLine' = Stream(chars)
        /\ tempVertices' = <<>> /\ tempNormals' = <<>> /\ tempUVWs' = <<>>
        /\ parsed' = [parsed EXCEPT !.f = @ + 1]
        /\ pc' = "fref"
        /\ UNCHANGED <<vertices, normals, UVWs, materials, radius, center,
                       objectLoaded, displayList, filename, currentGroup, currentMaterial,
                       path, unmatched, libs, material, mtlRead, epoch, calls, ret, ub,
                       otherVars>>

\* pool[index] for a 0-based int index, as operator[] of std::vector reads it:
\* unchecked.
InRange(pool, index) == index >= 0 /\ index < Len(pool)

PoolAt(pool, index) == IF InRange(pool, index) THEN pool[index + 1].ptr ELSE WILD

\* Lines 327-343.  temp is declared without a value in every turn of the loop;
\* when neither get writes it, temp == '/' reads that value and may go either
\* way (slash says which).
VertexPart(st, verts, slash) ==
    IF Len(verts) > 0
    THEN LET r1 == ExtractInt(st, 0)
             r2 == SkipToSeparator(r1.st, "indeterminate")
             r3 == Get(r2.st, r2.temp)
             indet == r3.temp = "indeterminate"
             noUV == IF indet THEN slash ELSE r3.temp = "/"
         IN  [st |-> IF noUV THEN r3.st ELSE Unget(r3.st),
              noUV |-> noUV,
              refs |-> <<PoolAt(verts, r1.val - 1)>>,
              oob |-> ~InRange(verts, r1.val - 1),
              indet |-> indet]
    ELSE [st |-> st, noUV |-> FALSE, refs |-> <<>>, oob |-> FALSE, indet |-> FALSE]

\* Lines 345-353 and 355-363: the same three statements on UVWs and on normals.
AttributePart(st, pool, taken) ==
    IF taken
    THEN LET r1 == ExtractInt(st, 0)
             r2 == SkipToSeparator(r1.st, "indeterminate")
         IN  [st |-> r2.st,
              refs |-> <<PoolAt(pool, r1.val - 1)>>,
              oob |-> ~InRange(pool, r1.val - 1)]
    ELSE [st |-> st, refs |-> <<>>, oob |-> FALSE]

\* while (newLine >> std::ws && !newLine.eof())
LoopCondition(st) == ~st.fail /\ ~st.eof

\* One turn of the reference loop, lines 319-364.
FRefIter ==
    LET st0 == Ws(newLine) IN
    /\ pc = "fref"
    /\ LoopCondition(st0)
    /\ \E slash \in BOOLEAN :
         LET v == VertexPart(st0, vertices, slash)
             t == AttributePart(v.st, UVWs, Len(UVWs) > 0 /\ ~v.noUV)
             n == AttributePart(t.st, normals, Len(normals) > 0)
         IN  /\ newLine' = n.st
             /\ tempVertices' = tempVertices \o v.refs
             /\ tempUVWs' = tempUVWs \o t.refs
             /\ tempNormals' = tempNormals \o n.refs
             /\ ub' = ub \cup (IF v.oob \/ t.oob \/ n.oob THEN {"pool index out of range"} ELSE {})
                         \cup (IF v.indet THEN {"indeterminate temp read"} ELSE {})
    /\ UNCHANGED <<pc, modelVars, currentGroup, currentMaterial, path, unmatched, linesRead,
                   libs, material, mtlRead, heap, epoch, calls, ret, parsed,
                   otherVars>>

\* What *p reads for a pointer into the vertex pool; a wild pointer reads
\* garbage (when the read does not fault).
Deref(verts, p, garbage) ==
    IF p = WILD THEN garbage
    ELSE verts[CHOOSE i \in 1..Len(verts) : verts[i].ptr = p].val

GarbageVecs == {ZeroVec, Vec(1, 1, 1)}

\* for (v ...) newFace->faceCenter += (*tempVertices[v]);
RECURSIVE SumInto(_, _)
SumInto(acc, vals) ==
    IF vals = <<>> THEN acc ELSE SumInto(VAddEq(acc, Head(vals)).self, Tail(vals))

\* Lines 384-388: the sum, then faceCenter /= (float)numVertices.
FaceCenter(start, vals) == VDivEq(SumInto(start, vals), F(Len(vals))).self

\* Lines 390-394.  vector1 and vector2 are the normalized edges; the model
\* keeps the edges.
FaceNormal(old, vals) ==
    IF Len(vals) >= 3
    THEN [set |-> TRUE, e1 |-> VSub(vals[1], vals[2]), e2 |-> VSub(vals[1], vals[3])]
    ELSE old

\* The loop has ended: lines 366-394.  Reading through a wild pointer either
\* faults or yields garbage.
FEnd ==
    LET st0 == Ws(newLine)
        g == GroupIndex(objects, currentGroup)
        k == Len(objects[g].faces)
        face == objects[g].faces[k]
        wild == \E i \in 1..Len(tempVertices) : tempVertices[i] = WILD
    IN  /\ pc = "fref"
        /\ ~LoopCondition(st0)
        /\ \E garbage \in GarbageVecs, faults \in BOOLEAN :
             /\ (~wild) => (~faults /\ garbage = ZeroVec)
             /\ IF faults
                THEN /\ pc' = "crashed"
                     /\ ub' = ub \cup {"wild pointer read"}
                     /\ newLine' = st0
                     /\ UNCHANGED <<objects, heap, tempVertices, tempNormals, tempUVWs>>
                ELSE LET vals == [i \in 1..Len(tempVertices) |->
                                    Deref(vertices, tempVertices[i], garbage)]
                         vArr == Ptr("Vector3*[] vertices", epoch, face.ptr[3])
                         nArr == Ptr("Vector3*[] normals", epoch, face.ptr[3])
                         tArr == Ptr("Vector3*[] UVWs", epoch, face.ptr[3])
                     IN  /\ objects' = [objects EXCEPT ![g].faces[k] =
                               [face EXCEPT
                                  !.numVertices = Len(tempVertices),
                                  !.numNormals = Len(tempNormals),
                                  !.numUVWs = Len(tempUVWs),
                                  !.vertices = vArr, !.vertexRefs = tempVertices,
                                  !.normals = nArr, !.normalRefs = tempNormals,
                                  !.UVWs = tArr, !.UVWRefs = tempUVWs,
                                  !.faceCenter = FaceCenter(face.faceCenter, vals),
                                  !.faceNormal = FaceNormal(face.faceNormal, vals)]]
                         /\ heap' = New(New(New(heap, vArr), nArr), tArr)
                         /\ ub' = ub \cup (IF wild THEN {"wild pointer read"} ELSE {})
                         /\ pc' = "parse"
                         /\ newLine' = Stream(<<>>)
                         /\ tempVertices' = <<>> /\ tempNormals' = <<>> /\ tempUVWs' = <<>>
    /\ UNCHANGED <<vertices, normals, UVWs, materials, radius, center, objectLoaded,
                   displayList, filename, currentGroup, currentMaterial, path, unmatched,
                   linesRead, libs, material, mtlRead, epoch, calls, ret, parsed,
                   otherVars>>

(***************************************************************************)
(* The end of loadObject, lines 398-444.  boundingPoints, which no function *)
(* of the repository reads, is not kept.                                   *)
(***************************************************************************)
FMin(a, b) == IF FLess(b, a) THEN b ELSE a

FMax(a, b) == IF FLess(a, b) THEN b ELSE a

RECURSIVE FoldMin(_, _)
FoldMin(acc, vals) == IF vals = <<>> THEN acc ELSE FoldMin(FMin(acc, Head(vals)), Tail(vals))

RECURSIVE FoldMax(_, _)
FoldMax(acc, vals) == IF vals = <<>> THEN acc ELSE FoldMax(FMax(acc, Head(vals)), Tail(vals))

Xs(pool) == [i \in 1..Len(pool) |-> pool[i].val.x]
Ys(pool) == [i \in 1..Len(pool) |-> pool[i].val.y]
Zs(pool) == [i \in 1..Len(pool) |-> pool[i].val.z]

Vals(pool) == [i \in 1..Len(pool) |-> pool[i].val]

\* The vertices loop: the turn for n == 0 sets the six bounds and continues,
\* without reaching center += ; every other turn adds its vertex.
CenterSum(pool) ==
    IF pool = <<>> THEN ZeroVec ELSE SumInto(ZeroVec, Tail(Vals(pool)))

\* center /= (float)vertices.size();
Center(pool) == VDivEq(CenterSum(pool), F(Len(pool))).self

\* x*x + y*y + z*z of Vector3(xmax, ymax, zmax) - Vector3(xmin, ymin, zmin)
LengthSquared(v) == FAdd(FAdd(FMul(v.x, v.x), FMul(v.y, v.y)), FMul(v.z, v.z))

\* getline has failed (the end of the file): the bounds, center and radius are
\* computed and the call returns true.  With no vertex the six bounds are
\* read without having been assigned.
Assemble ==
    /\ pc = "parse"
    /\ IF vertices = <<>>
       THEN \E lo, hi \in [{"x", "y", "z"} -> GarbageFloats] :
              /\ radius' = Radius(LengthSquared(VSub(Vector3(hi.x, hi.y, hi.z),
                                                      Vector3(lo.x, lo.y, lo.z))))
              /\ ub' = ub \cup {"indeterminate bounds read"}
       ELSE LET min == Vector3(FoldMin(Head(Xs(vertices)), Tail(Xs(vertices))),
                               FoldMin(Head(Ys(vertices)), Tail(Ys(vertices))),
                               FoldMin(Head(Zs(vertices)), Tail(Zs(vertices))))
                max == Vector3(FoldMax(Head(Xs(vertices)), Tail(Xs(vertices))),
                               FoldMax(Head(Ys(vertices)), Tail(Ys(vertices))),
                               FoldMax(Head(Zs(vertices)), Tail(Zs(vertices))))
            IN  /\ radius' = Radius(LengthSquared(VSub(max, min)))
                /\ ub' = ub
    /\ center' = Center(vertices)
    /\ objectLoaded' = TRUE
    /\ ret' = "true"
    /\ pc' = "idle"
    /\ currentGroup' = NULL /\ currentMaterial' = NULL /\ path' = <<>>
    /\ unmatched' = FALSE
    /\ UNCHANGED <<objects, vertices, normals, UVWs, materials, displayList, filename,
                   linesRead, newLine, tempVertices, tempNormals, tempUVWs, libs, material, mtlRead,
                   heap, epoch, calls, parsed,
                   otherVars>>

(***************************************************************************)
(* The mtllib branch and Model::loadMaterials.                             *)
(***************************************************************************)
LibNames == {"m", "n"}

\* After the call for one library name: the next name, or back to getline.
NextLibrary ==
    /\ libs' = Tail(libs)
    /\ pc' = IF Tail(libs) = <<>> THEN "parse" ELSE "mtllib"
    /\ material' = NULL

\* mtllib name ... : loadMaterials is called for each name in turn.
ParseMtllib(names) ==
    /\ ReadLine
    /\ parsed' = [parsed EXCEPT !.lib = @ + 1]
    /\ libs' = names
    /\ pc' = IF names = <<>> THEN "parse" ELSE "mtllib"
    /\ UNCHANGED <<modelVars, currentGroup, currentMaterial, path, unmatched, newLine,
                   tempVertices, tempNormals, tempUVWs, material, mtlRead,
                   heap, epoch, calls, ret, ub,
                   otherVars>>

\* loadMaterials on a file that cannot be opened returns at once.
LoadMaterialsFail ==
    /\ pc = "mtllib"
    /\ NextLibrary
    /\ UNCHANGED <<modelVars, currentGroup, currentMaterial, path, unmatched, linesRead, mtlRead, newLine,
                   tempVertices, tempNormals, tempUVWs, heap, epoch, calls, ret, parsed, ub,
                   otherVars>>

\* A loadMaterials that would start from an empty pool: what the code does
\* not do.
LoadMaterialsOpenClearing ==
    /\ pc = "mtllib"
    /\ material' = NULL
    /\ materials' = <<>>
    /\ pc' = "mtl"
    /\ mstr' = FreshStream
    /\ UNCHANGED <<objects, vertices, normals, UVWs, radius, center, objectLoaded,
                   displayList, filename, currentGroup, currentMaterial, path, unmatched,
                   linesRead, mtlRead, newLine, tempVertices, tempNormals, tempUVWs, libs,
                   heap, epoch, calls, ret, parsed, ub,
                   istr, restVars>>

\* loadMaterials opens path + name: lines 458-472, with the same prefix scan
\* as loadObject.
LoadMaterialsOpen ==
    LET dp == DirPrefix(path \o <<Head(libs)>>) IN
    /\ pc = "mtllib"
    /\ material' = NULL
    /\ IF dp.underrun
       THEN /\ ub' = ub \cup {"path underrun"}
            /\ pc' \in {"mtl", "crashed"}
       ELSE /\ ub' = ub
            /\ pc' = "mtl"
    /\ mstr' = FreshStream
    /\ UNCHANGED <<modelVars, currentGroup, currentMaterial, path, unmatched, linesRead, mtlRead, newLine,
                   tempVertices, tempNormals, tempUVWs, libs, heap, epoch, calls, ret, parsed,
                   istr, restVars>>

ReadMtlLine ==
    /\ pc = "mtl"
    /\ ~mstr.fail
    /\ mtlRead < MaxMtlLines
    /\ mtlRead' = mtlRead + 1

\* newmtl name
MtlNewmtl(name) ==
    LET m == Ptr("Material", epoch, parsed.newmtl + 1) IN
    /\ ReadMtlLine
    /\ heap' = New(heap, m)
    /\ material' = m
    /\ materials' = Append(materials, [Material(m) EXCEPT !.name = name])
    /\ parsed' = [parsed EXCEPT !.newmtl = @ + 1]
    /\ UNCHANGED <<pc, objects, vertices, normals, UVWs, radius, center, objectLoaded,
                   displayList, filename, currentGroup, currentMaterial, path, unmatched, linesRead,
                   newLine, tempVertices, tempNormals, tempUVWs, libs, epoch, calls, ret, ub,
                   otherVars>>

MaterialIndex(mats, p) == CHOOSE i \in 1..Len(mats) : mats[i].ptr = p

\* A write through material while it is NULL (a line before the first newmtl):
\* the build faults, or the write is lost.
NullMaterialWrite ==
    /\ material = NULL
    /\ ub' = ub \cup {"null material write"}
    /\ pc' \in {"mtl", "crashed"}
    /\ UNCHANGED materials

\* d alpha, Tr alpha (and Tf, which assigns alpha the mean of its three values)
MtlAlpha(alpha) ==
    /\ ReadMtlLine
    /\ \/ NullMaterialWrite
       \/ /\ material # NULL
          /\ materials' = [materials EXCEPT ![MaterialIndex(materials, material)].alpha = alpha]
          /\ UNCHANGED <<pc, ub>>
    /\ UNCHANGED <<objects, vertices, normals, UVWs, radius, center, objectLoaded,
                   displayList, filename, currentGroup, currentMaterial, path, unmatched, linesRead,
                   newLine, tempVertices, tempNormals, tempUVWs, libs, material,
                   heap, epoch, calls, ret, parsed,
                   otherVars>>

\* illum, Ka, Kd, Ks, Ke, Ns: writes to fields of *material the model does not keep.
MtlProperty ==
    /\ ReadMtlLine
    /\ \/ NullMaterialWrite
       \/ /\ material # NULL
          /\ UNCHANGED <<pc, ub, materials>>
    /\ UNCHANGED <<objects, vertices, normals, UVWs, radius, center, objectLoaded,
                   displayList, filename, currentGroup, currentMaterial, path, unmatched, linesRead,
                   newLine, tempVertices, tempNormals, tempUVWs, libs, material,
                   heap, epoch, calls, ret, parsed,
                   otherVars>>

\* map_Ka, map_Kd, map_Ks, map_Ke, map_Ns, map_d, map_Bump naming file: a
\* Texture is constructed from the file, then the pointer new returned is
\* assigned to the slot of *material, whatever loadTGA made of the file.  When
\* the allocation in loadTGA throws, nothing catches it.
MtlMap(slot, file) ==
    LET map == Ptr("Texture", epoch, parsed.map + 1) IN
    /\ ReadMtlLine
    /\ parsed' = [parsed EXCEPT !.map = @ + 1]
    /\ \E allocates \in BOOLEAN :
          LET decoded == LoadTGA(file, allocates) IN
          IF decoded.thrown
          THEN /\ pc' = "crashed"
               /\ UNCHANGED <<heap, materials, ub>>
          ELSE /\ heap' = NewTexture(heap, map, file, decoded)
               /\ \/ NullMaterialWrite
                  \/ /\ material # NULL
                     /\ materials' = [materials EXCEPT
                                        ![MaterialIndex(materials, material)].maps[slot] = map]
                     /\ UNCHANGED <<pc, ub>>
    /\ UNCHANGED <<objects, vertices, normals, UVWs, radius, center, objectLoaded,
                   displayList, filename, currentGroup, currentMaterial, path, unmatched, linesRead,
                   newLine, tempVertices, tempNormals, tempUVWs, libs, material,
                   epoch, calls, ret,
                   otherVars>>

\* Any other first word in a library.
MtlIgnored ==
    /\ ReadMtlLine
    /\ UNCHANGED <<pc, modelVars, currentGroup, currentMaterial, path, unmatched, linesRead, newLine,
                   tempVertices, tempNormals, tempUVWs, libs, material,
                   heap, epoch, calls, ret, parsed, ub,
                   otherVars>>

\* A "#" line of length characters in a library, with later lines after it.
MtlComment(length, later) ==
    IF GetlineFails(length)
    THEN /\ pc = "mtl"
         /\ ~mstr.fail
         /\ mstr' = [fail |-> TRUE, unread |-> later]
         /\ UNCHANGED <<pc, modelVars, loadVars, heap, epoch, calls, ret, parsed, ub,
                        istr, restVars>>
    ELSE MtlIgnored

\* getline fails in loadMaterials: the call returns.
MtlEnd ==
    /\ pc = "mtl"
    /\ NextLibrary
    /\ UNCHANGED <<modelVars, currentGroup, currentMaterial, path, unmatched, linesRead, mtlRead, newLine,
                   tempVertices, tempNormals, tempUVWs, heap, epoch, calls, ret, parsed, ub,
                   otherVars>>

(***************************************************************************)
(* Model::drawModel, Model::drawObject, Model::drawFace                    *)
(***************************************************************************)
\* The faces in the order the two loops of drawObject visit them: object by
\* object, and in each object face by face.
DrawOrder(objs) == Flatten([i \in 1..Len(objs) |-> objs[i].faces])

\* drawFace reads through the pointers of the three arrays of the face.
DrawFaceFaults(face) ==
    LET refs == face.vertexRefs \o face.normalRefs \o face.UVWRefs IN
    IF \E i \in 1..Len(refs) : refs[i] = WILD THEN {"wild pointer read"} ELSE {}

\* What drawObject(transparency) does, over the faces still to visit, that the
\* language leaves undefined.  A face whose material differs from
\* lastMaterial has material->alpha read, whatever material is; when material
\* is NULL and the build goes on, the float read is anything: the face is
\* skipped, or drawn with lastMaterial set to NULL.
RECURSIVE DrawObjectFaults(_, _, _, _)
DrawObjectFaults(faces, mats, transparency, lastMaterial) ==
    IF faces = <<>> THEN {}
    ELSE LET face == Head(faces)
             faceMaterial == face.material
             rest(last) == DrawObjectFaults(Tail(faces), mats, transparency, last)
         IN  IF faceMaterial = lastMaterial
             THEN DrawFaceFaults(face) \cup rest(lastMaterial)
             ELSE IF faceMaterial = NULL
             THEN {"null material read"} \cup DrawFaceFaults(face)
                  \cup rest(lastMaterial) \cup rest(NULL)
             ELSE IF ~transparency /\ FLess(mats[MaterialIndex(mats, faceMaterial)].alpha, F(1))
             THEN rest(lastMaterial)
             ELSE DrawFaceFaults(face) \cup rest(faceMaterial)

\* drawModel called on an idle Model: nothing when no object is loaded, the
\* display list when there is one, and otherwise a new display list compiled
\* from drawObject(false) and drawObject(true), each starting with
\* lastMaterial = NULL.
DrawModel ==
    /\ Call
    /\ IF ~objectLoaded \/ displayList # 0
       THEN UNCHANGED <<pc, displayList, ub>>
       ELSE LET faults == DrawObjectFaults(DrawOrder(objects), materials, FALSE, NULL)
                          \cup DrawObjectFaults(DrawOrder(objects), materials, TRUE, NULL)
            IN  /\ displayList' = 1
                /\ ub' = ub \cup faults
                /\ pc' \in IF faults = {} THEN {"idle"} ELSE {"idle", "crashed"}
    /\ UNCHANGED <<objects, vertices, normals, UVWs, materials, radius, center,
                   objectLoaded, filename, loadVars, heap, epoch, ret, parsed,
                   otherVars>>

(***************************************************************************)
(* Vector3's scalar operators (include/Vector3.h), call by call.           *)
(***************************************************************************)
\* operator*= : returns the product as a new vector.
VMulEq(self, num) ==
    [self |-> self,
     ret  |-> Vector3(FMul(self.x, num), FMul(self.y, num), FMul(self.z, num))]

ScalarOperators == {"*", "/", "*=", "/="}

\* The operator is called on a vector, with num.
VectorCall(op, self, num) ==
    /\ pc # "crashed"
    /\ vdepth = 0
    /\ vcall' = [op |-> op, self |-> self, num |-> num]
    /\ vdepth' = 1
    /\ vreturned' = FALSE
    /\ vresult' = ZeroVec
    /\ UNCHANGED <<pc, modelVars, loadVars, heap, epoch, calls, ret, parsed, ub,
                   streamVars, lightVars>>

\* The body of the innermost call runs.  operator*(float) evaluates
\* (*this * num) first, and operator/(float) evaluates (*this / num): the
\* operand is a float, so the operator called there is the one running, with
\* the same *this and num; the assignment to *this and the return come after
\* that call.  A call for which the stack has no room ends the process.
\* operator*= and operator/= return their vector.
VectorStep ==
    /\ pc # "crashed"
    /\ vdepth > 0
    /\ IF vcall.op \in {"*", "/"}
       THEN IF vdepth < MaxDepth
            THEN /\ vdepth' = vdepth + 1
                 /\ UNCHANGED <<pc, ub, vreturned, vresult>>
            ELSE /\ pc' = "crashed"
                 /\ ub' = ub \cup {"unbounded recursion"}
                 /\ UNCHANGED <<vdepth, vreturned, vresult>>
       ELSE /\ vdepth' = vdepth - 1
            /\ vreturned' = TRUE
            /\ vresult' = IF vcall.op = "*=" THEN VMulEq(vcall.self, vcall.num).ret
                                             ELSE VDivEq(vcall.self, vcall.num).ret
            /\ UNCHANGED <<pc, ub>>
    /\ UNCHANGED <<modelVars, loadVars, heap, epoch, calls, ret, parsed,
                   streamVars, lightVars, vcall>>

(***************************************************************************)
(* Light (source/Light.cpp): the hardware light slots.                     *)
(***************************************************************************)
GL_LIGHT0 == 16384

\* Light::Initialize: glGetIntegerv stores the number of lights the
\* implementation has, and every slot GL_LIGHT0 + i is pushed.
RECURSIVE PushSlots(_, _, _)
PushSlots(available, i, n) ==
    IF i < n THEN PushSlots(Append(available, GL_LIGHT0 + i), i + 1, n) ELSE available

LightInitialize(n) ==
    /\ pc = "idle"
    /\ num_lights = 0
    /\ num_lights' = n
    /\ available_lights' = PushSlots(available_lights, 0, n)
    /\ UNCHANGED <<pc, modelVars, loadVars, heap, epoch, calls, ret, parsed, ub,
                   streamVars, vecVars, lights, lightNum, lightsMade>>

\* Light::Light: the Light registers itself, and takes the first slot of
\* available_lights, or 0 when there is none.
NewLight ==
    /\ pc = "idle"
    /\ lightsMade < MaxLights
    /\ LET this == lightsMade + 1 IN
         /\ lightsMade' = this
         /\ lights' = Append(lights, this)
         /\ IF Len(available_lights) > 0
            THEN /\ lightNum' = (this :> available_lights[1]) @@ lightNum
                 /\ available_lights' = Tail(available_lights)
            ELSE /\ lightNum' = (this :> 0) @@ lightNum
                 /\ UNCHANGED available_lights
    /\ UNCHANGED <<pc, modelVars, loadVars, heap, epoch, calls, ret, parsed, ub,
                   streamVars, vecVars, num_lights>>

\* A mutation of Returned: the slot is pushed whatever it is.
ReturnedAlways(slot, available) == Append(available, slot)

\* ~Light, first statement: a slot other than 0 goes back to the end of
\* available_lights.
Returned(slot, available) ==
    IF slot # 0 THEN Append(available, slot) ELSE available

\* ~Light, the loop: the Light is erased from lights.
EraseLight(registry, this) ==
    SelectSeq(registry, LAMBDA l : l # this)

\* The loop goes on after the erase, with it++ on the erased position: when
\* the Light was the last of lights, it is then past end() and read there.
LightFaults(registry, this) ==
    IF registry # <<>> /\ registry[Len(registry)] = this
    THEN {"iterator past end"} ELSE {}

DestroyLight(this) ==
    /\ pc = "idle"
    /\ this \in DOMAIN lightNum
    /\ available_lights' = Returned(lightNum[this], available_lights)
    /\ lights' = EraseLight(lights, this)
    /\ lightNum' = [l \in DOMAIN lightNum \ {this} |-> lightNum[l]]
    /\ LET faults == LightFaults(lights, this) IN
         /\ ub' = ub \cup faults
         /\ pc' \in IF faults = {} THEN {"idle"} ELSE {"idle", "crashed"}
    /\ UNCHANGED <<modelVars, loadVars, heap, epoch, calls, ret, parsed,
                   streamVars, vecVars, num_lights, lightsMade>>

(***************************************************************************)
(* The lines the files of the environment are made of.                     *)
(***************************************************************************)
VecSet == {Vec(0, 0, 0), Vec(1, 0, 0), Vec(0, 1, 0), Vec(2, 0, 0)}

\* The characters of an f line after the f: each reference after one space.
FLine(refs) == Flatten([i \in 1..Len(refs) |-> <<" ">> \o refs[i]])

RefV(v) == v
RefVT(v, t) == v \o <<"/">> \o t
RefVTN(v, t, n) == v \o <<"/">> \o t \o <<"/">> \o n
RefVN(v, n) == v \o <<"/", "/">> \o n

\* Index fields: in range for the pools of the model, zero, negative,
\* not a number, and beyond every pool.
One == <<"1">>
Two == <<"2">>
Three == <<"3">>
BadIndexes == {<<"0">>, <<"-", "1">>, <<"x">>, <<"9">>}

FLines ==
    {FLine(<<RefV(One), RefV(Two), RefV(Three)>>),
     FLine(<<RefV(One), RefV(Two)>>),
     FLine(<<RefVT(One, One), RefVT(Two, One)>>),
     FLine(<<RefVTN(One, One, One), RefVTN(Two, One, One)>>),
     FLine(<<RefVN(One, One), RefVN(Two, One)>>)}
    \cup {FLine(<<RefV(b)>>) : b \in BadIndexes}

(***************************************************************************)
(* The next-state relations.  Each draws the lines of the files from the   *)
(* sets its specification is about.                                        *)
(***************************************************************************)
GeometryLine(vals, flines) ==
    \/ ParseIgnored
    \/ \E val \in vals : ParseV(val)
    \/ ParseVt(ZeroVec)
    \/ ParseVn(Vec(0, 0, 1))
    \/ \E chars \in flines : ParseFBegin(chars)

GroupLine ==
    \/ ParseGDefault
    \/ ParseG("a", "")

MaterialLine(liblines, names) ==
    \/ \E libnames \in liblines : ParseMtllib(libnames)
    \/ \E name \in names : ParseUsemtl(name)

\* An image file loadTGA decodes: uncompressed true colour, one pixel of 24
\* bits.
GoodTGA == TGAFile(2, 1, 1, 24, <<10, 20, 30>>)

\* The lines of a library that make the material pool.
Library(names, slots, files) ==
    \/ LoadMaterialsFail
    \/ LoadMaterialsOpen
    \/ \E name \in names : MtlNewmtl(name)
    \/ \E slot \in slots, file \in files : MtlMap(slot, file)
    \/ MtlEnd

\* The lines of a library that write a property of the current material, or
\* nothing.
PropertyLine ==
    \/ MtlAlpha(Rat(1, 2))
    \/ MtlProperty
    \/ MtlIgnored

FaceLoop ==
    \/ FRefIter
    \/ FEnd

\* The first loadObject call on a Model, on a file that opens.
FirstLoad == epoch = 0 /\ LoadObjectOpen(ObjPath)

(***************************************************************************)
(* Spec: the life of a Model, over several loadObject calls (that open     *)
(* their file or fail to) and deleteObjects calls, on files of few lines.  *)
(***************************************************************************)
Next ==
    \/ \E fn \in UnreadablePaths : LoadObjectFail(fn)
    \/ LoadObjectOpen(ObjPath)
    \/ /\ linesRead < MaxLifeLines
       /\ \/ GeometryLine({Vec(1, 0, 0)},
                          {FLine(<<RefV(One)>>), FLine(<<RefVTN(One, One, One)>>)})
          \/ GroupLine
          \/ MaterialLine({<<"m">>}, {"red"})
    \/ Library({"red"}, {"diffuseMap"}, {GoodTGA})
    \/ FaceLoop
    \/ Assemble
    \/ DeleteObjects

Spec == Init /\ [][Next]_vars

(***************************************************************************)
(* SpecFace: one loadObject call on a file of v, vt, vn and f lines, with  *)
(* f lines of every reference form and with indexes out of range.          *)
(***************************************************************************)
NextFace ==
    \/ FirstLoad
    \/ /\ linesRead < MaxLines
       /\ GeometryLine(VecSet, FLines)
    \/ FaceLoop
    \/ Assemble

SpecFace == Init /\ [][NextFace]_vars

(***************************************************************************)
(* SpecMaterial: one loadObject call on a file of mtllib, usemtl, v and f  *)
(* lines, with the libraries it names.                                     *)
(***************************************************************************)
NextMaterial ==
    \/ FirstLoad
    \/ /\ linesRead < MaxLines
       /\ \/ MaterialLine({<<"m">>, <<"m", "n">>}, MaterialNames \cup {"none"})
          \/ ParseV(Vec(1, 0, 0))
          \/ ParseFBegin(FLine(<<RefV(One)>>))
    \/ Library(MaterialNames, {"diffuseMap", "bumpMap"}, {GoodTGA})
    \/ PropertyLine
    \/ FaceLoop
    \/ Assemble

SpecMaterial == Init /\ [][NextMaterial]_vars

(***************************************************************************)
(* SpecTexture: one loadObject call on a file whose one line names a       *)
(* library of newmtl and map_Kd lines, over image files of every kind      *)
(* loadTGA tells apart, then the teardown.                                 *)
(***************************************************************************)
MaxMaps == 2

Payloads == {<<>>, <<10, 20, 30>>, <<10, 20, 30, 40, 50, 60>>}

\* No file, a file shorter than a header, a run-length encoded image (type
\* 10), and uncompressed images (type 2): of 24 bits with a width and a
\* height that are negative, zero or positive and a payload shorter than, as
\* long as or longer than the header announces; of 32 bits with a payload one
\* byte short and a whole one; of 16 bits.
TGAFiles ==
    {NoFile, ShortHeader, TGAFile(10, 1, 1, 24, <<10, 20, 30>>)}
    \cup {TGAFile(2, w, h, 24, payload) :
            w \in {-1, 0, 1, 2}, h \in {-1, 0, 1}, payload \in Payloads}
    \cup {TGAFile(2, 1, 1, 32, <<10, 20, 30>>), TGAFile(2, 1, 1, 32, <<10, 20, 30, 40>>),
          TGAFile(2, 1, 1, 16, <<10, 20, 30>>)}

NextTexture ==
    \/ FirstLoad
    \/ /\ parsed.lib = 0
       /\ ParseMtllib(<<"m">>)
    \/ LoadMaterialsOpen
    \/ MtlNewmtl("red")
    \/ /\ parsed.map < MaxMaps
       /\ \E file \in TGAFiles : MtlMap("diffuseMap", file)
    \/ MtlEnd
    \/ Assemble
    \/ DeleteObjects

SpecTexture == Init /\ [][NextTexture]_vars

(***************************************************************************)
(* SpecDraw: one loadObject call on a file of a v line, a mtllib line, g   *)
(* lines, usemtl lines and f lines in any order, with a library of one     *)
(* material, then drawModel.                                               *)
(***************************************************************************)
MaxDrawFaces == 2    \* f lines in the file that is drawn

MaxDrawEach == 1     \* v lines, mtllib lines, and g a lines in that file

NextDraw ==
    \/ FirstLoad
    \/ /\ parsed.v < MaxDrawEach
       /\ ParseV(Vec(1, 0, 0))
    \/ /\ parsed.lib < MaxDrawEach
       /\ ParseMtllib(<<"m">>)
    \/ /\ parsed.g < MaxDrawEach
       /\ ParseG("a", "")
    \/ ParseGDefault
    \/ ParseUsemtl("red")
    \/ /\ parsed.f < MaxDrawFaces
       /\ ParseFBegin(FLine(<<RefV(One)>>))
    \/ FaceLoop
    \/ LoadMaterialsOpen
    \/ MtlNewmtl("red")
    \/ MtlAlpha(Rat(1, 2))
    \/ MtlEnd
    \/ Assemble
    \/ DrawModel

SpecDraw == Init /\ [][NextDraw]_vars

(***************************************************************************)
(* SpecPath: one loadObject call on a file named with or without a         *)
(* directory, whose lines name libraries.                                  *)
(***************************************************************************)
\* Filenames with a slash, with a backslash, with the separator first, and
\* with none.
Paths == {ObjPath, <<"d", "\\", "a">>, <<"/", "a">>, <<"a">>, <<"a", "b">>}

NextPath ==
    \/ \E fn \in Paths : (epoch = 0 /\ LoadObjectOpen(fn))
    \/ /\ linesRead < MaxLines
       /\ \/ \E libnames \in {<<"m">>, <<"m", "n">>} : ParseMtllib(libnames)
          \/ ParseV(Vec(1, 0, 0))
          \/ ParseIgnored
    \/ Library({"red"}, {"diffuseMap"}, {GoodTGA})
    \/ Assemble

SpecPath == Init /\ [][NextPath]_vars

(***************************************************************************)
(* SpecLine: one loadObject call on a file, naming one library, whose      *)
(* lines are short, 255 characters long, or longer.                        *)
(***************************************************************************)
MaxLater == 2        \* lines after a line getline fails on

LineLengths == {1, LineSize - 1, LineSize, LineSize + 1}

NextLine ==
    \/ FirstLoad
    \/ /\ linesRead < MaxLines
       /\ \/ \E length \in LineLengths, later \in 0..MaxLater : ParseComment(length, later)
          \/ ParseV(Vec(1, 0, 0))
          \/ /\ parsed.lib < MaxDrawEach
             /\ ParseMtllib(<<"m">>)
    \/ LoadMaterialsOpen
    \/ MtlNewmtl("red")
    \/ \E length \in LineLengths, later \in 0..MaxLater : MtlComment(length, later)
    \/ MtlEnd
    \/ Assemble

SpecLine == Init /\ [][NextLine]_vars

(***************************************************************************)
(* SpecLight: Lights made and destroyed, around one Light::Initialize.     *)
(***************************************************************************)
NextLight ==
    \/ \E n \in 1..MaxSlots : LightInitialize(n)
    \/ NewLight
    \/ \E this \in 1..MaxLights : DestroyLight(this)

SpecLight == Init /\ [][NextLight]_vars

(***************************************************************************)
(* FairSpecVector: calls of the scalar operators of Vector3.  A call runs  *)
(* on one thread: a step that can be taken is taken.                       *)
(***************************************************************************)
Scalars == {F(0), F(2), Rat(1, 2)}

NextVector ==
    \/ \E op \in ScalarOperators, self \in VecSet, num \in Scalars : VectorCall(op, self, num)
    \/ VectorStep

FairSpecVector == Init /\ [][NextVector]_vars /\ WF_vars(NextVector)

(***************************************************************************)
(* FairSpecHang: one loadObject call on a file whose f lines come while    *)
(* the vertex pool is still empty.  loadObject runs on one thread from its *)
(* call to its return: a step that can be taken is taken.                  *)
(***************************************************************************)
HangLines ==
    {FLine(<<RefV(One)>>), FLine(<<RefV(One), RefV(One)>>), FLine(<<RefVT(One, One)>>)}

NextHang ==
    \/ FirstLoad
    \/ /\ linesRead < MaxLines
       /\ \/ ParseIgnored
          \/ ParseVt(ZeroVec)
          \/ \E chars \in HangLines : ParseFBegin(chars)
    \/ FaceLoop
    \/ Assemble

FairSpecHang == Init /\ [][NextHang]_vars /\ WF_vars(NextHang)

(***************************************************************************)
(* What the claims speak of.                                               *)
(***************************************************************************)
Range(seq) == {seq[i] : i \in 1..Len(seq)}

AllFaces == UNION {Range(objects[i].faces) : i \in 1..Len(objects)}

\* The face of the f line being read: the last one pushed on currentGroup.
CurrentFace(objs) ==
    LET g == GroupIndex(objs, currentGroup) IN objs[g].faces[Len(objs[g].faces)]

Built(f) == f.numVertices # Unset

MeanOf(vals) ==
    LET sum == SumInto(ZeroVec, vals)
        n == F(Len(vals))
    IN  Vector3(FDiv(sum.x, n), FDiv(sum.y, n), FDiv(sum.z, n))

\* The references of an f line: its maximal runs of characters other than
\* spaces; and the fields of a reference: what its slashes separate.
RECURSIVE Split(_, _, _)
Split(chars, sep, cur) ==
    IF chars = <<>> THEN <<cur>>
    ELSE IF Head(chars) = sep THEN <<cur>> \o Split(Tail(chars), sep, <<>>)
    ELSE Split(Tail(chars), sep, Append(cur, Head(chars)))

References(chars) == SelectSeq(Split(chars, " ", <<>>), LAMBDA r : r # <<>>)

Fields(ref) == Split(ref, "/", <<>>)

IsIndex(field) == field # <<>> /\ \A i \in 1..Len(field) : IsDigit(field[i])

IndexOf(field) == ReadDigits(Stream(field), 0).val

InPool(field, pool) == IsIndex(field) /\ IndexOf(field) >= 1 /\ IndexOf(field) <= Len(pool)

\* v, v/t, v/t/n or v//n, with every index in the range of its pool.
ValidReference(ref) ==
    LET fs == Fields(ref) IN
    /\ Len(fs) \in 1..3
    /\ InPool(fs[1], vertices)
    /\ Len(fs) = 2 => InPool(fs[2], UVWs)
    /\ Len(fs) = 3 => (fs[2] = <<>> \/ InPool(fs[2], UVWs)) /\ InPool(fs[3], normals)

ValidFLine(chars) ==
    /\ References(chars) # <<>>
    /\ \A i \in 1..Len(References(chars)) : ValidReference(References(chars)[i])

Allocated == heap.live \cup DOMAIN heap.frees

OwnedKinds == {"GroupObject", "Face", "Vector3 v", "Vector3 vt", "Vector3 vn", "Material"}

PoolsEmpty ==
    objects = <<>> /\ vertices = <<>> /\ normals = <<>> /\ UVWs = <<>> /\ materials = <<>>

\* The step is a call of loadObject that returns false.
FailedLoadStep == calls' = calls + 1 /\ ret' = "false"

(***************************************************************************)
(* The claims.                                                             *)
(***************************************************************************)

\* C1: after a usemtl line that matches no material, the face of every f line
\* (until a usemtl line matches) has no material.
C1_UnmatchedUsemtlClearsMaterial ==
    (pc = "fref" /\ unmatched) => CurrentFace(objects).material = NULL

\* C2: a reference whose index is out of the range of its pool is rejected: no
\* pool is read out of range, and no face holding such a reference is attached
\* to a group.
C2_OutOfRangeRejected ==
    /\ "pool index out of range" \notin ub
    /\ \A f \in AllFaces : WILD \notin Range(f.vertexRefs) \cup Range(f.normalRefs)
                                     \cup Range(f.UVWRefs)

\* C3: when the f line whose reference loop ends holds only references of the
\* forms v, v/t, v/t/n, v//n with indexes in range, its face gets as many
\* vertices as the line holds references, each the pool entry at index v - 1.
C3_VertexCountIsReferenceCount ==
    [][(pc = "fref" /\ pc' = "parse" /\ ValidFLine(newLine.s))
         => LET refs == References(newLine.s)
                face == CurrentFace(objects')
            IN  /\ face.numVertices = Len(refs)
                /\ \A i \in 1..Len(refs) :
                     face.vertexRefs[i] = vertices[IndexOf(Fields(refs[i])[1])].ptr]_vars

\* C4: a loadObject call that has opened its file comes to its end.
C4_LoadObjectReturns == (pc = "parse") ~> (pc = "idle" \/ pc = "crashed")

\* C5: the faceCenter of a face with n >= 1 vertices is the mean of their
\* positions.
C5_FaceCenterIsMean ==
    \A f \in AllFaces :
        (Built(f) /\ f.numVertices >= 1 /\ WILD \notin Range(f.vertexRefs))
          => f.faceCenter = MeanOf([i \in 1..f.numVertices |->
                                       Deref(vertices, f.vertexRefs[i], ZeroVec)])

\* C6: after a loadObject that returned true on a file with n >= 1 v lines,
\* center is the mean of all n vertex positions.
C6_CenterIsMean ==
    (pc = "idle" /\ ret = "true" /\ vertices # <<>>) => center = MeanOf(Vals(vertices))

\* C7, as claimed: after a loadObject call that fails to open its file, the
\* pools are empty and objectLoaded is false.
C7_FailedLoadLeavesEmpty ==
    (pc = "idle" /\ ret = "false") => (PoolsEmpty /\ ~objectLoaded)

\* C7, amended: a loadObject call that fails to open its file leaves the five
\* pools and objectLoaded as they were before the call.
C7_FailedLoadKeepsPools ==
    [][FailedLoadStep
         => UNCHANGED <<objects, vertices, normals, UVWs, materials, objectLoaded>>]_vars

\* A failed load has returned on a Model that holds a loaded object.
C7_Witness ==
    pc = "idle" /\ ret = "false" /\ objectLoaded /\ vertices # <<>> /\ objects # <<>>

\* C8: a loadObject call that fails to open its file changes no field of the
\* Model, the path getPath returns included.
C8_FailedLoadIsNoOp == [][FailedLoadStep => UNCHANGED modelVars]_vars

\* C9: after a loadObject that returned true, the pools hold what the call
\* created from its file and nothing else: every entry was allocated by this
\* call and is still allocated, each pool has one entry per directive
\* dispatched, and the object pool starts with the call's default object.
C9_PoolsHoldOnlyThisLoad ==
    (pc = "idle" /\ ret = "true") =>
       /\ \A pool \in {vertices, normals, UVWs, materials, objects} :
            \A i \in 1..Len(pool) :
               /\ EpochOf(pool[i].ptr) = epoch
               /\ pool[i].ptr \in heap.live
       /\ Len(vertices) = parsed.v
       /\ Len(UVWs) = parsed.vt
       /\ Len(normals) = parsed.vn
       /\ Len(materials) = parsed.newmtl
       /\ Len(objects) = parsed.g + 1
       /\ objects[1].ptr = Ptr("GroupObject", epoch, 1)

\* A second load has returned true with a vertex of its own, after a first
\* load that had created a vertex.
C9_Witness ==
    /\ pc = "idle" /\ ret = "true" /\ epoch = 2
    /\ vertices # <<>>
    /\ Ptr("Vector3 v", 1, 1) \in Allocated

\* C10: after deleteObjects every GroupObject, Face, pool Vector3 and Material
\* that was allocated has been deleted exactly once and none is still allocated.
C10_DeleteObjectsDestroysAll ==
    (pc = "idle" /\ ret = "none" /\ calls > 0) =>
       \A p \in Allocated :
          KindOf(p) \in OwnedKinds => (p \notin heap.live /\ Frees(heap, p) = 1)

\* No write went through a NULL material so far.
NoNullWrite == "null material write" \notin ub

Textures == DOMAIN heap.tex

\* C11: after deleteObjects every Texture the map lines of the load created
\* has been destroyed exactly once and none is still allocated, whatever the
\* newmtl and map lines were (lines before the first newmtl set aside).
C11_TexturesDestroyedOnce ==
    (pc = "idle" /\ ret = "none" /\ calls > 0 /\ NoNullWrite) =>
       \A p \in Textures : p \notin heap.live /\ Frees(heap, p) = 1

\* C12: a map line that names an image whose header gives an ImageType other
\* than 2 produces no Texture and leaves the slot (and the pool) as it was, and
\* the parse of the library goes on.
C12_UnsupportedTypeMakesNoTexture ==
    [][\A file \in TGAFiles :
          (MtlMap("diffuseMap", file) /\ material # NULL
           /\ file.complete /\ file.header.ImageType # 2)
          => (materials' = materials /\ Textures' = Textures /\ pc' = "mtl")]_vars

\* The payload with the bytes at offsets 0 and 2 of every pixel exchanged.
Exchanged(old, bytesPerPixel) ==
    [k \in 1..Len(old) |->
        LET offset == (k - 1) % bytesPerPixel IN
        IF offset = 0 THEN old[k + 2] ELSE IF offset = 2 THEN old[k - 2] ELSE old[k]]

\* C13: after a successful loadTGA (of an image of positive width and height,
\* in a library whose map lines follow a newmtl) the pixel buffer is the
\* payload the header announces with the bytes at offsets 0 and 2 of every
\* pixel exchanged and every other byte as in the file.
C13_FirstAndThirdExchanged ==
    \A p \in Textures :
       LET t == heap.tex[p] IN
       (t.loaded /\ NoNullWrite
        /\ t.file.header.ImageWidth > 0 /\ t.file.header.ImageHeight > 0) =>
          t.pixels = Exchanged(SubSeq(t.file.payload, 1, Len(t.pixels)), t.bpp \div 8)

\* C14: loadTGA fails, having allocated no pixel buffer and created no device
\* texture, whenever the ImageWidth or ImageHeight of the header, as signed
\* 16-bit values, is not positive or PixelDepth is neither 24 nor 32.
C14_BadDimensionsFail ==
    \A p \in Textures :
       LET t == heap.tex[p]
           header == t.file.header
       IN  (NoNullWrite /\ t.file.complete /\ header.ImageType = 2
            /\ (header.ImageWidth <= 0 \/ header.ImageHeight <= 0
                \/ header.PixelDepth \notin {24, 32}))
           => (~t.loaded /\ t.imageData = NULL /\ ~t.created)

\* C15: a property or map line before the first newmtl line is ignored: it
\* leaves the material pool as it was, accesses no absent material, and the
\* parse goes on with the next line.
C15_LineBeforeNewmtlIgnored ==
    [][(pc = "mtl" /\ material = NULL /\ mtlRead' = mtlRead + 1 /\ material' = NULL)
       => (materials' = materials /\ ub' = ub /\ pc' = "mtl")]_vars

\* The place in pool order of the earliest Material named name; 0 when none is.
Earliest(mats, name) ==
    LET named == {i \in 1..Len(mats) : mats[i].name = name} IN
    IF named = {} THEN 0 ELSE CHOOSE i \in named : \A j \in named : i <= j

\* C16: every newmtl line adds a Material of its own to the pool, whatever the
\* names already there; a usemtl line whose name is in the pool makes the
\* earliest Material of that name in pool order the current one; until the
\* call returns the current material changes at usemtl lines only, and every
\* face created by an f line is bound to it.
C16_UsemtlBindsEarliest ==
    [][/\ (parsed'.newmtl = parsed.newmtl + 1) =>
             /\ Len(materials') = Len(materials) + 1
             /\ \A i \in 1..Len(materials) : materials'[i].ptr # materials'[Len(materials')].ptr
       /\ \A name \in MaterialNames :
             (ParseUsemtl(name) /\ Earliest(materials, name) # 0)
             => currentMaterial' = materials[Earliest(materials, name)].ptr
       /\ (pc # "idle" /\ pc' # "idle" /\ currentMaterial' # currentMaterial) =>
             \E name \in MaterialNames : ParseUsemtl(name)
       /\ (parsed'.f = parsed.f + 1) =>
             CurrentFace(objects').material = currentMaterial]_vars

\* One mtllib line has put two Materials of one name in the pool, the usemtl
\* line after it has named them, and the face of the f line after that is
\* bound to the first.
C16_Witness ==
    /\ linesRead = 3
    /\ Len(materials) >= 2
    /\ materials[1].name = materials[2].name
    /\ currentMaterial = materials[1].ptr
    /\ \E f \in AllFaces : f.material = materials[1].ptr

\* The object the load created before its first line.
DefaultObject == Ptr("GroupObject", epoch, 1)

\* C17: a g default line, after any number of explicit g lines, makes the
\* object created at the start of the load, still the first of the pool, the
\* active group and creates no object; until the call returns the active
\* group changes at g lines only, and the face of every f line is appended to
\* the active group and to no other.
C17_GDefaultReactivatesDefault ==
    [][/\ ParseGDefault =>
             /\ currentGroup' = DefaultObject
             /\ objects'[1].ptr = DefaultObject
             /\ Len(objects') = Len(objects)
             /\ Allocated' = Allocated
       /\ (pc # "idle" /\ pc' # "idle" /\ currentGroup' # currentGroup) =>
             (ParseGDefault \/ ParseG("a", ""))
       /\ (parsed'.f = parsed.f + 1) =>
             \A g \in 1..Len(objects) :
                IF objects[g].ptr = currentGroup
                THEN /\ Len(objects'[g].faces) = Len(objects[g].faces) + 1
                     /\ SubSeq(objects'[g].faces, 1, Len(objects[g].faces)) = objects[g].faces
                ELSE objects'[g] = objects[g]]_vars

\* The lines g a, g default and f have been read in this order: the pool holds
\* two objects, the default one is active and the face is on it.
C17_Witness ==
    /\ pc = "fref" /\ linesRead = 3
    /\ Len(objects) = 2
    /\ currentGroup = DefaultObject
    /\ Len(objects[1].faces) = 1
    /\ objects[2].faces = <<>>

\* C18: while a load runs, the material pool only grows at its end: it holds,
\* in the order of their newmtl lines, the Materials of the libraries opened
\* so far; the Materials of earlier libraries stay where they are and as they
\* are (only the Material of the latest newmtl line of the library being read
\* is written); and a library name that cannot be opened leaves the pool as
\* it was.
C18_MtllibOnlyAppends ==
    [][(pc # "idle" /\ pc' # "idle") =>
          /\ Len(materials') >= Len(materials)
          /\ \A i \in 1..Len(materials) :
                /\ materials'[i].ptr = materials[i].ptr
                /\ materials'[i].name = materials[i].name
                /\ (materials[i].ptr # material) => materials'[i] = materials[i]
          /\ Len(materials') = parsed'.newmtl
          /\ \A i \in 1..Len(materials') : materials'[i].ptr = Ptr("Material", epoch', i)
          /\ (pc = "mtllib" /\ pc' \in {"mtllib", "parse"}) => materials' = materials]_vars

\* The line mtllib m n: library m has put Materials in the pool and library n
\* has just been opened.
C18_Witness ==
    /\ pc = "mtl" /\ libs = <<"n">> /\ parsed.lib = 1
    /\ material = NULL
    /\ materials # <<>>

\* A loadObject call that has opened its file is running.
Loading == pc \notin {"idle", "crashed"}

C20_EmptyPoolNotLoaded ==
    (pc = "idle" /\ vertices = <<>>) =>
       (ret # "true" /\ ~objectLoaded /\ "indeterminate bounds read" \notin ub)

\* The Texture was constructed from an image of positive width and height
\* whose payload is shorter than the header announces.
ShortRead(t) ==
    /\ t.file.complete /\ t.file.header.ImageType = 2
    /\ t.file.header.ImageWidth > 0 /\ t.file.header.ImageHeight > 0
    /\ t.imageData # NULL /\ ~t.loaded

\* C21: the pixel buffer allocated for an image whose payload is short is
\* released once at most, from the failure path of loadTGA through ~Texture.
C21_ShortReadBufferReleasedOnce ==
    \A p \in Textures :
       (NoNullWrite /\ ShortRead(heap.tex[p])) => Frees(heap, heap.tex[p].imageData) <= 1

\* C22: drawObject reads no field of an absent material, whatever scene
\* loadObject has produced.
C22_NoNullMaterialRead == "null material read" \notin ub

\* C23: the directory-prefix scans of loadObject and loadMaterials stay
\* within indices 0..length of their path buffer; for a filename without a
\* slash and without a backslash the scan stops at index 0 with an empty
\* prefix.
C23_PrefixScanInBounds == "path underrun" \notin ub

\* C24: when loadObject returns true every line of the primary file and of
\* its libraries has been dispatched: no line was left unread after a line
\* of 256 characters or more.
C24_EveryLineDispatched ==
    (pc = "idle" /\ ret = "true") => (istr.unread = 0 /\ mstr.unread = 0)

\* C25: a call of operator*(float) or of operator/(float) returns, and what
\* it returns is the vector scaled by, respectively divided by, num.
C25_ScalarOperatorsReturn ==
    \A op \in {"*", "/"} :
       (vcall.op = op /\ vdepth > 0)
       ~> (/\ vcall.op = op /\ vdepth = 0 /\ vreturned
           /\ vresult = IF op = "*" THEN VMulEq(vcall.self, vcall.num).ret
                                    ELSE VDivEq(vcall.self, vcall.num).ret)

\* The hardware light slots, the live Lights that hold a slot, and the
\* places of available_lights that list it.
Slots == {GL_LIGHT0 + i : i \in 0..(num_lights - 1)}

Holders(slot) == {l \in DOMAIN lightNum : lightNum[l] = slot}

Listed(slot) == {k \in 1..Len(available_lights) : available_lights[k] = slot}

\* C26: every hardware light slot is either held by exactly one live Light or
\* listed exactly once in available_lights, never both and never twice, and
\* nothing else is held or listed; a Light created when no slot is available
\* holds slot 0, and a Light that holds slot 0 returns nothing to
\* available_lights when it is destroyed.
C26_SlotsHeldOrListedOnce ==
    /\ [](/\ \A slot \in Slots :
                Cardinality(Holders(slot)) + Cardinality(Listed(slot)) = 1
          /\ \A k \in 1..Len(available_lights) : available_lights[k] \in Slots
          /\ \A l \in DOMAIN lightNum : lightNum[l] \in Slots \cup {0})
    /\ [][/\ \A l \in DOMAIN lightNum' \ DOMAIN lightNum :
                available_lights = <<>> => lightNum'[l] = 0
          /\ \A l \in DOMAIN lightNum \ DOMAIN lightNum' :
                lightNum[l] = 0 => available_lights' = available_lights]_vars

\* A Light made after the slots ran out holds 0, an earlier Light holds a
\* slot, and a slot has come back to available_lights since.
C26_Witness ==
    \E l, h \in DOMAIN lightNum :
        /\ h < l
        /\ lightNum[h] # 0
        /\ lightNum[l] = 0
        /\ available_lights # <<>>

====
